---- MODULE Spec2Model ----
(***************************************************************************)
(* Model of mlc_calculator.Calculator (src/mlc_calculator/__init__.py):    *)
(* the character scanner and two-stack evaluator of expression_parse, the  *)
(* apply step calculate, get_priority and the three lookup tables.         *)
(*                                                                         *)
(* Numbers.  The program computes with Python floats.  The model computes  *)
(* exactly, on numbers of the form (n / d) * 2^e2 * 5^e5 with n, d coprime *)
(* and coprime to 10.  Every decimal literal, every unit factor and every  *)
(* MAX-family factor has this form.  A result that leaves the form (an     *)
(* irrational root, a mantissa or exponent past the bounds below) is the   *)
(* value Beyond, and a run that produces it stops in the state "beyond".   *)
(***************************************************************************)
EXTENDS Integers, Sequences, FiniteSets, TLC

\* ------------------------------------------------------------------------
\* Bounds of the numeric domain
\* ------------------------------------------------------------------------
Limit == 1000000000
MaxExp == 400

\* ------------------------------------------------------------------------
\* Exact numbers
\* ------------------------------------------------------------------------
Abs(x) == IF x < 0 THEN -x ELSE x

Min(a, b) == IF a <= b THEN a ELSE b

Max(a, b) == IF a >= b THEN a ELSE b

RECURSIVE GCD(_, _)
GCD(a, b) == IF b = 0 THEN a ELSE GCD(b, a % b)

\* the number of times the prime p divides m (m > 0)
RECURSIVE Mult(_, _)
Mult(m, p) == IF m % p = 0 THEN 1 + Mult(m \div p, p) ELSE 0

\* m with every factor p removed (m > 0)
RECURSIVE Strip(_, _)
Strip(m, p) == IF m % p = 0 THEN Strip(m \div p, p) ELSE m

\* a * b stays inside the integer range of the model
Fits(a, b) == a = 0 \/ b = 0 \/ Abs(a) <= Limit \div Abs(b)

\* m * p^k, or -1 when it leaves the integer range (m >= 0, k >= 0)
RECURSIVE ScaleUp(_, _, _)
ScaleUp(m, p, k) ==
    IF k = 0 THEN m
    ELSE IF m = 0 THEN 0
    ELSE IF m < 0 \/ ~Fits(m, p) THEN -1
    ELSE ScaleUp(m * p, p, k - 1)

Beyond == [n |-> 0, d |-> 0, e2 |-> 0, e5 |-> 0]

Zero == [n |-> 0, d |-> 1, e2 |-> 0, e5 |-> 0]

IsNum(v) == v.d > 0

\* the number (nn / dd) * 2^x2 * 5^x5 in normal form (dd > 0)
Norm(nn, dd, x2, x5) ==
    IF nn = 0 THEN Zero
    ELSE LET g  == GCD(Abs(nn), dd)
             n1 == Abs(nn) \div g
             d1 == dd \div g
             f2 == x2 + Mult(n1, 2) - Mult(d1, 2)
             f5 == x5 + Mult(n1, 5) - Mult(d1, 5)
             n2 == Strip(Strip(n1, 2), 5)
             d2 == Strip(Strip(d1, 2), 5)
         IN  IF Abs(f2) > MaxExp \/ Abs(f5) > MaxExp THEN Beyond
             ELSE [n |-> IF nn < 0 THEN -n2 ELSE n2, d |-> d2, e2 |-> f2, e5 |-> f5]

FromInt(k) == Norm(k, 1, 0, 0)

Two(k) == [n |-> 1, d |-> 1, e2 |-> k, e5 |-> 0]

Ten(k) == [n |-> 1, d |-> 1, e2 |-> k, e5 |-> k]

Neg(v) == IF IsNum(v) THEN [v EXCEPT !.n = -v.n] ELSE Beyond

AbsV(v) == IF IsNum(v) THEN [v EXCEPT !.n = Abs(v.n)] ELSE Beyond

MulV(x, y) ==
    IF ~IsNum(x) \/ ~IsNum(y) THEN Beyond
    ELSE IF ~Fits(x.n, y.n) \/ ~Fits(x.d, y.d) THEN Beyond
    ELSE Norm(x.n * y.n, x.d * y.d, x.e2 + y.e2, x.e5 + y.e5)

\* x / y for y # 0
DivV(x, y) ==
    IF ~IsNum(x) \/ ~IsNum(y) \/ y.n = 0 THEN Beyond
    ELSE IF ~Fits(x.n, y.d) \/ ~Fits(x.d, y.n) THEN Beyond
    ELSE Norm((IF y.n < 0 THEN -1 ELSE 1) * x.n * y.d, x.d * Abs(y.n),
              x.e2 - y.e2, x.e5 - y.e5)

AddV(x, y) ==
    IF ~IsNum(x) \/ ~IsNum(y) THEN Beyond
    ELSE IF x.n = 0 THEN y
    ELSE IF y.n = 0 THEN x
    ELSE LET c2 == Min(x.e2, y.e2)
             c5 == Min(x.e5, y.e5)
             xs == ScaleUp(ScaleUp(Abs(x.n), 2, x.e2 - c2), 5, x.e5 - c5)
             ys == ScaleUp(ScaleUp(Abs(y.n), 2, y.e2 - c2), 5, y.e5 - c5)
         IN  IF xs < 0 \/ ys < 0 THEN Beyond
             ELSE IF ~Fits(xs, y.d) \/ ~Fits(ys, x.d) \/ ~Fits(x.d, y.d) THEN Beyond
             ELSE LET a == (IF x.n < 0 THEN -1 ELSE 1) * xs * y.d
                      b == (IF y.n < 0 THEN -1 ELSE 1) * ys * x.d
                  IN  IF Abs(a + b) > Limit THEN Beyond
                      ELSE Norm(a + b, x.d * y.d, c2, c5)

SubV(x, y) == AddV(x, Neg(y))

IsInteger(v) == IsNum(v) /\ v.d = 1 /\ v.e2 >= 0 /\ v.e5 >= 0

\* the plain fraction num / den of v, den = 0 when it leaves the integer range
ToRat(v) ==
    IF ~IsNum(v) THEN [num |-> 0, den |-> 0]
    ELSE LET up == ScaleUp(ScaleUp(Abs(v.n), 2, Max(v.e2, 0)), 5, Max(v.e5, 0))
             dn == ScaleUp(ScaleUp(v.d, 2, Max(-v.e2, 0)), 5, Max(-v.e5, 0))
         IN  IF up < 0 \/ dn < 0 THEN [num |-> 0, den |-> 0]
             ELSE [num |-> IF v.n < 0 THEN -up ELSE up, den |-> dn]

\* 0 <= x < y, decided without leaving the integer range; "lt", "ge" or "unknown"
CompareAbs(x, y) ==
    LET l  == Abs(x.n) * y.d
        r  == Abs(y.n) * x.d
        a  == x.e2 - y.e2
        b  == x.e5 - y.e5
        ls == ScaleUp(ScaleUp(l, 2, Max(a, 0)), 5, Max(b, 0))
        rs == ScaleUp(ScaleUp(r, 2, Max(-a, 0)), 5, Max(-b, 0))
    IN  IF ~Fits(x.n, y.d) \/ ~Fits(y.n, x.d) THEN "unknown"
        ELSE IF ls >= 0 /\ rs >= 0 THEN (IF ls < rs THEN "lt" ELSE "ge")
        ELSE IF ls >= 0 THEN "lt"
        ELSE IF rs >= 0 THEN "ge"
        ELSE "unknown"

\* the numerator of v fits the integer range and its denominator does not: |v| < 1
Small(v) ==
    /\ IsNum(v)
    /\ ScaleUp(ScaleUp(Abs(v.n), 2, Max(v.e2, 0)), 5, Max(v.e5, 0)) >= 0
    /\ ScaleUp(ScaleUp(v.d, 2, Max(-v.e2, 0)), 5, Max(-v.e5, 0)) < 0

FloorV(v) ==
    LET q == ToRat(v)
    IN  IF IsInteger(v) THEN v
        ELSE IF Small(v) THEN FromInt(IF v.n < 0 THEN -1 ELSE 0)
        ELSE IF q.den = 0 THEN Beyond
        ELSE FromInt(q.num \div q.den)

CeilV(v) == Neg(FloorV(Neg(v)))

\* round half to even
RoundV(v) ==
    LET q == ToRat(v)
        f == q.num \div q.den
        r == q.num - f * q.den
    IN  IF IsInteger(v) THEN v
        ELSE IF q.den = 0 THEN Beyond
        ELSE IF ~Fits(2, r) THEN Beyond
        ELSE IF 2 * r < q.den THEN FromInt(f)
        ELSE IF 2 * r > q.den THEN FromInt(f + 1)
        ELSE IF f % 2 = 0 THEN FromInt(f) ELSE FromInt(f + 1)

\* the integer square root of m >= 0, searched in lo..hi
RECURSIVE ISqrt(_, _, _)
ISqrt(m, lo, hi) ==
    IF lo >= hi THEN lo
    ELSE LET mid == (lo + hi + 1) \div 2
         IN  IF mid * mid <= m THEN ISqrt(m, mid, hi) ELSE ISqrt(m, lo, mid - 1)

Root(m) == ISqrt(m, 0, Min(m, 31622))

IsSquare(m) == Root(m) * Root(m) = m

\* m^k for integers m >= 1 and k >= 0, or -1 when it leaves the integer range
IntPow(m, k) == IF m = 1 THEN 1 ELSE ScaleUp(1, m, k)

\* a^k for an integer k >= 0
PowV(a, k) ==
    IF ~IsNum(a) THEN Beyond
    ELSE IF k = 0 THEN FromInt(1)
    ELSE IF a.n = 0 THEN Zero
    ELSE LET up == IntPow(Abs(a.n), k)
             dn == IntPow(a.d, k)
         IN  IF up < 0 \/ dn < 0 \/ ~Fits(a.e2, k) \/ ~Fits(a.e5, k) THEN Beyond
             ELSE Norm(IF a.n < 0 /\ k % 2 = 1 THEN -up ELSE up, dn, a.e2 * k, a.e5 * k)

\* ------------------------------------------------------------------------
\* Characters and tokens.  A string of the program is a sequence of
\* one-character strings; a token of the operator stack is such a sequence.
\* ------------------------------------------------------------------------
Digits == {"0", "1", "2", "3", "4", "5", "6", "7", "8", "9"}

LowerCase ==
    << "a", "b", "c", "d", "e", "f", "g", "h", "i", "j", "k", "l", "m",
       "n", "o", "p", "q", "r", "s", "t", "u", "v", "w", "x", "y", "z" >>

UpperCase ==
    << "A", "B", "C", "D", "E", "F", "G", "H", "I", "J", "K", "L", "M",
       "N", "O", "P", "Q", "R", "S", "T", "U", "V", "W", "X", "Y", "Z" >>

Range(s) == {s[k] : k \in 1..Len(s)}

isdigit(c) == c \in Digits

isalpha(c) == c \in Range(LowerCase) \cup Range(UpperCase)

lower(c) ==
    IF c \in Range(UpperCase)
    THEN LowerCase[CHOOSE k \in 1..26 : UpperCase[k] = c]
    ELSE c

\* ord(c) - ord('a') for a lower-case letter c
LetterIndex(c) == (CHOOSE k \in 1..26 : LowerCase[k] = c) - 1

DigitValue(c) ==
    CASE c = "0" -> 0 [] c = "1" -> 1 [] c = "2" -> 2 [] c = "3" -> 3 [] c = "4" -> 4
      [] c = "5" -> 5 [] c = "6" -> 6 [] c = "7" -> 7 [] c = "8" -> 8 [] c = "9" -> 9

\* the Python string of a sequence of characters
RECURSIVE Str(_)
Str(s) == IF s = << >> THEN "" ELSE Head(s) \o Str(Tail(s))

\* sub in s, for sequences of characters
Contains(s, sub) ==
    \E k \in 1..(Len(s) - Len(sub) + 1) : SubSeq(s, k, k + Len(sub) - 1) = sub

LParen == << "(" >>

MaxName == << "m", "a", "x" >>

\* ------------------------------------------------------------------------
\* The three tables of Calculator.__init__
\* ------------------------------------------------------------------------
functions ==
    { "sin", "cos", "tan", "asin", "acos", "atan", "sinh", "cosh", "tanh",
      "log", "exp", "sqrt", "abs", "ceil", "floor", "round", "radians", "degrees" }

operator ==
    [ c \in {"+", "-", "*", "/", "%", "^"} |->
        CASE c \in {"+", "-"} -> 1
          [] c \in {"*", "/", "%"} -> 2
          [] c = "^" -> 3 ]

unit ==
    [ u \in { "k", "m", "g", "t", "p", "ulv", "lv", "mv", "hv", "ev", "iv", "luv",
              "zpm", "uv", "uhv", "uev", "uiv", "uxv", "opv", "max" } |->
        CASE u = "k"   -> Ten(3)     \* 1000
          [] u = "m"   -> Ten(6)     \* 1000000
          [] u = "g"   -> Ten(9)     \* 1000000000
          [] u = "t"   -> Ten(12)    \* 1000000000000
          [] u = "p"   -> Ten(15)    \* 1000000000000000
          [] u = "ulv" -> Two(3)     \* 8
          [] u = "lv"  -> Two(5)     \* 32
          [] u = "mv"  -> Two(7)     \* 128
          [] u = "hv"  -> Two(9)     \* 512
          [] u = "ev"  -> Two(11)    \* 2048
          [] u = "iv"  -> Two(13)    \* 8192
          [] u = "luv" -> Two(15)    \* 32768
          [] u = "zpm" -> Two(17)    \* 131072
          [] u = "uv"  -> Two(19)    \* 524288
          [] u = "uhv" -> Two(21)    \* 2097152
          [] u = "uev" -> Two(23)    \* 8388608
          [] u = "uiv" -> Two(25)    \* 33554432
          [] u = "uxv" -> Two(27)    \* 134217728
          [] u = "opv" -> Two(29)    \* 536870912
          [] u = "max" -> Two(31) ]  \* 2147483648

\* get_priority with the names ranked below ^
get_priority_names(op) ==
    IF Str(op) \in DOMAIN operator THEN operator[Str(op)]
    ELSE IF op = LParen THEN 0
    ELSE IF Str(op) \in DOMAIN unit THEN 4
    ELSE 2

\* get_priority with * / % ranked like + and -
get_priority_flat(op) ==
    IF Str(op) \in DOMAIN operator THEN (IF Str(op) = "^" THEN 3 ELSE 1)
    ELSE IF op = LParen THEN 0
    ELSE IF Str(op) \in DOMAIN unit THEN 4
    ELSE 5

get_priority(op) ==
    IF Str(op) \in DOMAIN operator THEN operator[Str(op)]
    ELSE IF op = LParen THEN 0
    ELSE IF Str(op) \in DOMAIN unit THEN 4
    ELSE 5

\* ------------------------------------------------------------------------
\* Outcomes of a call: a value, a raised exception, or a number the model's
\* numeric domain does not hold
\* ------------------------------------------------------------------------
Ok(v) == [out |-> "ok", val |-> v, exc |-> "none", msg |-> "none"]

Raise(e, m) == [out |-> "raise", val |-> Zero, exc |-> e, msg |-> m]

OutOfDomain == [out |-> "beyond", val |-> Zero, exc |-> "none", msg |-> "none"]

Wrap(v) == IF IsNum(v) THEN Ok(v) ELSE OutOfDomain

DomainError == Raise("ValueError", "math domain error")

One == FromInt(1)

\* self.functions[op](arg): exact where the result is a number of the model
ApplyFunction(f, x) ==
    CASE f = "abs"   -> Ok(AbsV(x))
      [] f = "ceil"  -> Wrap(CeilV(x))
      [] f = "floor" -> Wrap(FloorV(x))
      [] f = "round" -> Wrap(RoundV(x))
      [] f = "sqrt"  ->
            IF x.n < 0 THEN DomainError
            ELSE IF IsSquare(x.n) /\ IsSquare(x.d) /\ x.e2 % 2 = 0 /\ x.e5 % 2 = 0
                 THEN Ok([n |-> Root(x.n), d |-> Root(x.d),
                          e2 |-> x.e2 \div 2, e5 |-> x.e5 \div 2])
                 ELSE OutOfDomain
      [] f = "log"   ->
            IF x.n <= 0 THEN DomainError
            ELSE IF x = One THEN Ok(Zero) ELSE OutOfDomain
      [] f \in {"asin", "acos"} ->
            IF CompareAbs(x, One) = "unknown" THEN OutOfDomain
            ELSE IF CompareAbs(x, One) = "ge" /\ AbsV(x) # One THEN DomainError
            ELSE IF f = "asin" /\ x = Zero THEN Ok(Zero)
            ELSE IF f = "acos" /\ x = One THEN Ok(Zero)
            ELSE OutOfDomain
      [] f \in {"sin", "tan", "atan", "sinh", "tanh", "radians", "degrees"} ->
            IF x = Zero THEN Ok(Zero) ELSE OutOfDomain
      [] f \in {"cos", "cosh", "exp"} ->
            IF x = Zero THEN Ok(One) ELSE OutOfDomain

\* 1e-10
NearZero == Ten(-10)

\* abs(b) <= 1e-10
TooSmall_le(b) == IF AbsV(b) = NearZero THEN "lt" ELSE CompareAbs(b, NearZero)

\* abs(b) < 1e-10 of lines 88 and 92: "lt", "ge" or "unknown"
TooSmall(b) == CompareAbs(b, NearZero)

\* a ** b
Power(a, b) ==
    IF IsInteger(b)
    THEN LET q == ToRat(b)
         IN  IF q.den = 0 \/ Abs(q.num) > MaxExp THEN OutOfDomain
             ELSE IF q.num >= 0 THEN Wrap(PowV(a, q.num))
             ELSE IF a = Zero THEN Raise("ZeroDivisionError", "zero to a negative power")
             ELSE Wrap(DivV(One, PowV(a, -q.num)))
    ELSE IF a = Zero /\ b.n > 0 THEN Ok(Zero)
    ELSE IF a = Zero THEN Raise("ZeroDivisionError", "zero to a negative power")
    ELSE IF a = One THEN Ok(One)
    ELSE OutOfDomain

\* a % b for b # 0: the remainder has the sign of b
Modulo(a, b) == SubV(a, MulV(b, FloorV(DivV(a, b))))

\* the arithmetic of lines 81-96, on the popped a and b
BinaryOp(op, a, b) ==
    CASE op = "+" -> Wrap(AddV(a, b))
      [] op = "-" -> Wrap(SubV(a, b))
      [] op = "*" -> Wrap(MulV(a, b))
      [] op = "/" ->
            IF TooSmall(b) = "unknown" THEN OutOfDomain
            ELSE IF TooSmall(b) = "lt" THEN Raise("ValueError", "divide by zero")
            ELSE Wrap(DivV(a, b))
      [] op = "%" ->
            IF TooSmall(b) = "unknown" THEN OutOfDomain
            ELSE IF TooSmall(b) = "lt" THEN Raise("ValueError", "modulo by zero")
            ELSE Wrap(Modulo(a, b))
      [] op = "^" -> Power(a, b)

\* ------------------------------------------------------------------------
\* calculate: pop one pending operation and resolve it.  The result carries
\* the two stacks as the call leaves them, also when it raises.
\* ------------------------------------------------------------------------
Top(s) == s[Len(s)]

Pop(s) == SubSeq(s, 1, Len(s) - 1)

Result(r, ns, os) ==
    [out |-> r.out, exc |-> r.exc, msg |-> r.msg,
     number_stack |-> IF r.out = "ok" THEN Append(ns, r.val) ELSE ns,
     operator_stack |-> os]

EmptyPop == Raise("IndexError", "pop from empty list")

\* 4 ** (ord(op[3]) - ord('a'))
MaxFamilyFactor_index(op) == PowV(FromInt(4), LetterIndex(op[4]))

\* lines 105-106: 4 ** (ord(op[3]) - ord('a') + 1)
MaxFamilyFactor(op) == PowV(FromInt(4), LetterIndex(op[4]) + 1)

\* calculate with a and b popped in the other order
calculate_swapped(number_stack, operator_stack) ==
    LET op   == Top(operator_stack)
        os   == Pop(operator_stack)
        name == Str(op)
        size == Len(number_stack)
    IN  IF operator_stack = << >> THEN Result(EmptyPop, number_stack, operator_stack)
        ELSE IF name \in functions THEN
            IF size = 0 THEN Result(EmptyPop, number_stack, os)
            ELSE Result(ApplyFunction(name, Top(number_stack)), Pop(number_stack), os)
        ELSE IF name \in DOMAIN operator THEN
            IF size < 2
            THEN Result(Raise("ValueError",
                              "operator " \o name \o " missing sufficient operands"),
                        << >>, os)
            ELSE Result(BinaryOp(name, number_stack[size], number_stack[size - 1]),
                        SubSeq(number_stack, 1, size - 2), os)
        ELSE IF op = LParen THEN
            [out |-> "ok", exc |-> "none", msg |-> "none",
             number_stack |-> number_stack, operator_stack |-> Append(os, op)]
        ELSE IF name \in DOMAIN unit THEN
            IF size = 0 THEN Result(EmptyPop, number_stack, os)
            ELSE Result(Wrap(MulV(Top(number_stack), unit[name])), Pop(number_stack), os)
        ELSE IF Contains(op, MaxName) THEN
            IF size = 0 THEN Result(EmptyPop, number_stack, os)
            ELSE Result(Wrap(MulV(MulV(Top(number_stack), unit["max"]),
                                  MaxFamilyFactor(op))),
                        Pop(number_stack), os)
        ELSE Result(Raise("ValueError", "invalid operation: " \o name), number_stack, os)

\* calculate with the argument of a function read and left on the value stack
calculate_peek(number_stack, operator_stack) ==
    LET op   == Top(operator_stack)
        os   == Pop(operator_stack)
        name == Str(op)
        size == Len(number_stack)
    IN  IF operator_stack = << >> THEN Result(EmptyPop, number_stack, operator_stack)
        ELSE IF name \in functions THEN
            IF size = 0 THEN Result(EmptyPop, number_stack, os)
            ELSE Result(ApplyFunction(name, Top(number_stack)), number_stack, os)
        ELSE IF name \in DOMAIN operator THEN
            IF size < 2
            THEN Result(Raise("ValueError",
                              "operator " \o name \o " missing sufficient operands"),
                        << >>, os)
            ELSE Result(BinaryOp(name, number_stack[size - 1], number_stack[size]),
                        SubSeq(number_stack, 1, size - 2), os)
        ELSE IF op = LParen THEN
            [out |-> "ok", exc |-> "none", msg |-> "none",
             number_stack |-> number_stack, operator_stack |-> Append(os, op)]
        ELSE IF name \in DOMAIN unit THEN
            IF size = 0 THEN Result(EmptyPop, number_stack, os)
            ELSE Result(Wrap(MulV(Top(number_stack), unit[name])), Pop(number_stack), os)
        ELSE IF Contains(op, MaxName) THEN
            IF size = 0 THEN Result(EmptyPop, number_stack, os)
            ELSE Result(Wrap(MulV(MulV(Top(number_stack), unit["max"]),
                                  MaxFamilyFactor(op))),
                        Pop(number_stack), os)
        ELSE Result(Raise("ValueError", "invalid operation: " \o name), number_stack, os)

calculate(number_stack, operator_stack) ==
    LET op   == Top(operator_stack)
        os   == Pop(operator_stack)
        name == Str(op)
        size == Len(number_stack)
    IN  IF operator_stack = << >> THEN Result(EmptyPop, number_stack, operator_stack)
        ELSE IF name \in functions THEN
            IF size = 0 THEN Result(EmptyPop, number_stack, os)
            ELSE Result(ApplyFunction(name, Top(number_stack)), Pop(number_stack), os)
        ELSE IF name \in DOMAIN operator THEN
            IF size < 2
            THEN Result(Raise("ValueError",
                              "operator " \o name \o " missing sufficient operands"),
                        << >>, os)
            ELSE Result(BinaryOp(name, number_stack[size - 1], number_stack[size]),
                        SubSeq(number_stack, 1, size - 2), os)
        ELSE IF op = LParen THEN
            [out |-> "ok", exc |-> "none", msg |-> "none",
             number_stack |-> number_stack, operator_stack |-> Append(os, op)]
        ELSE IF name \in DOMAIN unit THEN
            IF size = 0 THEN Result(EmptyPop, number_stack, os)
            ELSE Result(Wrap(MulV(Top(number_stack), unit[name])), Pop(number_stack), os)
        ELSE IF Contains(op, MaxName) THEN
            IF size = 0 THEN Result(EmptyPop, number_stack, os)
            ELSE Result(Wrap(MulV(MulV(Top(number_stack), unit["max"]),
                                  MaxFamilyFactor(op))),
                        Pop(number_stack), os)
        ELSE Result(Raise("ValueError", "invalid operation: " \o name), number_stack, os)

\* ------------------------------------------------------------------------
\* The scanner of expression_parse
\* ------------------------------------------------------------------------
\* expr[i] of the program, i counted from 0
At(s, k) == s[k + 1]

\* the while loop of lines 129-131: where the run of digits and points from k ends
RECURSIVE NumberEnd(_, _)
NumberEnd(s, k) ==
    IF k < Len(s) /\ (isdigit(At(s, k)) \/ At(s, k) = ".") THEN NumberEnd(s, k + 1) ELSE k

\* the while loop of lines 136-138: where the run of letters from k ends
RECURSIVE NameEnd(_, _)
NameEnd(s, k) ==
    IF k < Len(s) /\ isalpha(At(s, k)) THEN NameEnd(s, k + 1) ELSE k

\* the digits of a run as an integer, -1 past the integer range
RECURSIVE DigitsValue(_, _)
DigitsValue(run, acc) ==
    IF run = << >> THEN acc
    ELSE IF Head(run) = "." THEN DigitsValue(Tail(run), acc)
    ELSE IF ~Fits(acc, 10) \/ acc * 10 + 9 > Limit THEN -1
    ELSE DigitsValue(Tail(run), acc * 10 + DigitValue(Head(run)))

Count(s, c) == Cardinality({k \in 1..Len(s) : s[k] = c})

\* float(number) for a run of digits and points that starts with a digit
ParseFloat(run) ==
    IF Count(run, ".") > 1
    THEN Raise("ValueError", "could not convert string to float: " \o Str(run))
    ELSE LET point == IF Count(run, ".") = 0 THEN Len(run) + 1
                      ELSE CHOOSE k \in 1..Len(run) : run[k] = "."
             frac  == Max(Len(run) - point, 0)
             m     == DigitsValue(run, 0)
         IN  IF m < 0 THEN OutOfDomain ELSE Wrap(Norm(m, 1, -frac, -frac))

\* the identifier of a run of letters as written
FoldLower_keep(run) == run

\* the identifier of a run of letters, case-folded
RECURSIVE FoldLower(_)
FoldLower(run) ==
    IF run = << >> THEN << >> ELSE << lower(Head(run)) >> \o FoldLower(Tail(run))

\* line 139 and line 141: the names the scanner pushes on the operator stack
Accepted(function_name) ==
    \/ Str(function_name) \in functions
    \/ Str(function_name) \in DOMAIN unit
    \/ Contains(function_name, MaxName)

\* the condition of the loop without the exception for ^
MustApply_left(char, operator_stack) ==
    /\ operator_stack # << >>
    /\ get_priority(<< char >>) <= get_priority(Top(operator_stack))

\* the condition of the loop without the ranks: every pending token is applied
MustApply_all(char, operator_stack) == operator_stack # << >>

\* the condition of the loop without the test for equal ranks
MustApply_strict(char, operator_stack) ==
    /\ operator_stack # << >>
    /\ get_priority(<< char >>) < get_priority(Top(operator_stack))

\* the condition of the while loop of lines 147-153
MustApply(char, operator_stack) ==
    /\ operator_stack # << >>
    /\ \/ get_priority(<< char >>) < get_priority(Top(operator_stack))
       \/ /\ get_priority(<< char >>) = get_priority(Top(operator_stack))
          /\ char # "^"

\* expression.replace(" ", "")
RECURSIVE RemoveSpaces(_)
RemoveSpaces(s) ==
    IF s = << >> THEN << >>
    ELSE IF Head(s) = " " THEN RemoveSpaces(Tail(s))
    ELSE << Head(s) >> \o RemoveSpaces(Tail(s))

\* ------------------------------------------------------------------------
\* format_result: the display string of a value.  A value whose decimal form
\* needs integers past the model's range is not printed ("wide").
\* ------------------------------------------------------------------------
Text(s) == [out |-> "ok", text |-> s]

Unprintable == [out |-> "wide", text |-> ""]

DigitChars == << "0", "1", "2", "3", "4", "5", "6", "7", "8", "9" >>

\* str(k) for an integer k >= 0
RECURSIVE Decimal(_)
Decimal(k) ==
    IF k < 10 THEN DigitChars[k + 1]
    ELSE Decimal(k \div 10) \o DigitChars[(k % 10) + 1]

\* the first count digits of rem / den after the point and the remainder left
\* (0 <= rem < den)
RECURSIVE Fraction(_, _, _)
Fraction(rem, den, count) ==
    IF count = 0 THEN [digits |-> << >>, rem |-> rem]
    ELSE LET rest == Fraction((rem * 10) % den, den, count - 1)
         IN  [digits |-> << (rem * 10) \div den >> \o rest.digits, rem |-> rest.rem]

\* a run of decimal digits plus one in its last place; digits of 9 only give zeros
RECURSIVE Increment(_)
Increment(digits) ==
    IF digits = << >> THEN << >>
    ELSE IF Top(digits) = 9 THEN Append(Increment(Pop(digits)), 0)
    ELSE Append(Pop(digits), Top(digits) + 1)

\* rstrip('0') on a run of digits
RECURSIVE StripZeros(_)
StripZeros(digits) ==
    IF digits # << >> /\ Top(digits) = 0 THEN StripZeros(Pop(digits)) ELSE digits

RECURSIVE DigitText(_)
DigitText(digits) ==
    IF digits = << >> THEN "" ELSE DigitChars[Head(digits) + 1] \o DigitText(Tail(digits))

\* lines 173-174: f"{value:.10f}", rounded half to even, then rstrip('0').rstrip('.'),
\* of the fraction num / den (den > 0)
Fixed(num, den) ==
    LET part    == Fraction(Abs(num) % den, den, 10)
        up      == \/ 2 * part.rem > den
                   \/ 2 * part.rem = den /\ part.digits[10] % 2 = 1
        carry   == up /\ \A k \in 1..10 : part.digits[k] = 9
        whole   == (Abs(num) \div den) + (IF carry THEN 1 ELSE 0)
        digits  == StripZeros(IF up THEN Increment(part.digits) ELSE part.digits)
    IN  (IF num < 0 THEN "-" ELSE "")
        \o Decimal(whole)
        \o (IF digits = << >> THEN "" ELSE "." \o DigitText(digits))

\* int(round(value)) as a string
Whole(value) ==
    LET q == ToRat(RoundV(value))
    IN  IF q.den = 0 THEN Unprintable
        ELSE Text((IF q.num < 0 THEN "-" ELSE "") \o Decimal(Abs(q.num)))

\* lines 168-175
format_result(value) ==
    LET away == AbsV(SubV(value, RoundV(value)))
        q    == ToRat(value)
    IN  IF value = Zero THEN Text("0")
        ELSE IF ~IsNum(away) \/ CompareAbs(away, NearZero) = "unknown" THEN Unprintable
        ELSE IF CompareAbs(away, NearZero) = "lt" THEN Whole(value)
        ELSE IF q.den = 0 \/ ~Fits(q.den, 10) THEN Unprintable
        ELSE Text(Fixed(q.num, q.den))

\* ------------------------------------------------------------------------
\* Inputs: every string made of at most len lexemes of an alphabet
\* ------------------------------------------------------------------------
RECURSIVE Flatten(_)
Flatten(w) == IF w = << >> THEN << >> ELSE Head(w) \o Flatten(Tail(w))

Strings(alphabet, len) ==
    { Flatten(w) : w \in UNION { [1..k -> alphabet] : k \in 0..len } }

MaxLen == 4

Alphabet ==
    { << "(" >>, << ")" >>, << "2" >>, << "3" >>, << "+" >>, << "*" >>, << "^" >>,
      << "k" >>, << "a", "b", "s" >>, << "#" >>, << " " >> }

Inputs == Strings(Alphabet, MaxLen)

\* ------------------------------------------------------------------------
\* State: one call solve(expression) on a Calculator
\* ------------------------------------------------------------------------
VARIABLES
    expression,      \* the argument of solve
    expr,            \* the argument of expression_parse
    i,               \* the cursor of the scanning loop
    number_stack,
    operator_stack,
    pc,              \* "solve", "scan", "rparen" (the loop of line 122), "flush" (the
                     \* loop of line 147), "end" (the loop of line 159), "returned"
                     \* (expression_parse has returned), "done" (solve has returned),
                     \* "raised", "beyond", "wide"
    exc,             \* the exception class the call raised
    msg,             \* its message
    result,          \* the value expression_parse returned
    output,          \* the string solve returned
    calls            \* the calls this Calculator has finished, each with its outcome

vars ==
    << expression, expr, i, number_stack, operator_stack, pc, exc, msg, result,
       output, calls >>

length == Len(expr)

char == At(expr, i)

InitWith(inputs) ==
    /\ expression \in inputs
    /\ expr = << >>
    /\ i = 0
    /\ number_stack = << >>
    /\ operator_stack = << >>
    /\ pc = "solve"
    /\ exc = "none"
    /\ msg = "none"
    /\ result = Zero
    /\ output = "none"
    /\ calls = { }

Init == InitWith(Inputs)

\* raise e(m) out of solve
Throw(e, m) ==
    /\ pc' = "raised"
    /\ exc' = e
    /\ msg' = m

\* Solve with the stacks of the call before kept
Solve_keep ==
    /\ pc = "solve"
    /\ expr' = RemoveSpaces(expression)
    /\ i' = 0
    /\ pc' = "scan"
    /\ UNCHANGED << expression, output, calls, number_stack, operator_stack, exc, msg,
                    result >>

\* line 178, lines 113-116
Solve ==
    /\ pc = "solve"
    /\ expr' = RemoveSpaces(expression)
    /\ i' = 0
    /\ number_stack' = << >>
    /\ operator_stack' = << >>
    /\ pc' = "scan"
    /\ UNCHANGED << expression, output, calls, exc, msg, result >>

\* one call of calculate from one of the three loops
Apply ==
    LET r == calculate(number_stack, operator_stack)
    IN  /\ number_stack' = r.number_stack
        /\ operator_stack' = r.operator_stack
        /\ CASE r.out = "ok"     -> UNCHANGED << pc, exc, msg >>
             [] r.out = "raise"  -> Throw(r.exc, r.msg)
             [] r.out = "beyond" -> pc' = "beyond" /\ UNCHANGED << exc, msg >>
        /\ UNCHANGED << expression, output, calls, expr, i, result >>

\* lines 119-120
ScanLParen ==
    /\ pc = "scan" /\ i < length /\ char = "("
    /\ operator_stack' = Append(operator_stack, << char >>)
    /\ i' = i + 1
    /\ UNCHANGED << expression, output, calls, expr, number_stack, pc, exc, msg, result >>

\* line 121: enter the loop of line 122
ScanRParen ==
    /\ pc = "scan" /\ i < length /\ char = ")"
    /\ pc' = "rparen"
    /\ UNCHANGED << expression, output, calls, expr, i, number_stack, operator_stack, exc, msg, result >>

\* lines 122-123
ApplyInParen ==
    /\ pc = "rparen"
    /\ operator_stack # << >> /\ Top(operator_stack) # LParen
    /\ Apply

\* CloseParen that skips a ')' met with an empty operator stack
CloseParen_lenient ==
    /\ pc = "rparen"
    /\ ~(operator_stack # << >> /\ Top(operator_stack) # LParen)
    /\ operator_stack' = IF operator_stack = << >> THEN << >> ELSE Pop(operator_stack)
    /\ i' = i + 1
    /\ pc' = "scan"
    /\ UNCHANGED << expression, output, calls, expr, number_stack, exc, msg, result >>

\* lines 124-126, line 158
CloseParen ==
    /\ pc = "rparen"
    /\ ~(operator_stack # << >> /\ Top(operator_stack) # LParen)
    /\ IF operator_stack = << >>
       THEN /\ Throw("ValueError", "mismatched parentheses")
            /\ UNCHANGED << i, operator_stack >>
       ELSE /\ operator_stack' = Pop(operator_stack)
            /\ i' = i + 1
            /\ pc' = "scan"
            /\ UNCHANGED << exc, msg >>
    /\ UNCHANGED << expression, output, calls, expr, number_stack, result >>

\* lines 127-133
ScanNumber ==
    /\ pc = "scan" /\ i < length /\ char # "(" /\ char # ")" /\ isdigit(char)
    /\ LET stop   == NumberEnd(expr, i)
           number == SubSeq(expr, i + 1, stop)
           r      == ParseFloat(number)
       IN  /\ i' = stop
           /\ CASE r.out = "ok"     -> /\ number_stack' = Append(number_stack, r.val)
                                       /\ UNCHANGED << pc, exc, msg >>
                [] r.out = "raise"  -> /\ Throw(r.exc, r.msg)
                                       /\ UNCHANGED number_stack
                [] r.out = "beyond" -> /\ pc' = "beyond"
                                       /\ UNCHANGED << number_stack, exc, msg >>
    /\ UNCHANGED << expression, output, calls, expr, operator_stack, result >>

\* lines 134-145
ScanName ==
    /\ pc = "scan" /\ i < length /\ char # "(" /\ char # ")" /\ ~isdigit(char)
    /\ isalpha(char)
    /\ LET stop          == NameEnd(expr, i)
           function_name == FoldLower(SubSeq(expr, i + 1, stop))
       IN  /\ i' = stop
           /\ IF Accepted(function_name)
              THEN /\ operator_stack' = Append(operator_stack, function_name)
                   /\ UNCHANGED << pc, exc, msg >>
              ELSE /\ Throw("ValueError",
                            "unknown function or unit: " \o Str(function_name))
                   /\ UNCHANGED operator_stack
    /\ UNCHANGED << expression, output, calls, expr, number_stack, result >>

\* line 146: enter the loop of line 147
ScanOperator ==
    /\ pc = "scan" /\ i < length /\ char # "(" /\ char # ")" /\ ~isdigit(char)
    /\ ~isalpha(char) /\ char \in DOMAIN operator
    /\ pc' = "flush"
    /\ UNCHANGED << expression, output, calls, expr, i, number_stack, operator_stack, exc, msg, result >>

\* lines 147-154
ApplyForOperator ==
    /\ pc = "flush"
    /\ MustApply(char, operator_stack)
    /\ Apply

\* line 155, line 158
PushOperator ==
    /\ pc = "flush"
    /\ ~MustApply(char, operator_stack)
    /\ operator_stack' = Append(operator_stack, << char >>)
    /\ i' = i + 1
    /\ pc' = "scan"
    /\ UNCHANGED << expression, output, calls, expr, number_stack, exc, msg, result >>

\* lines 156-157
ScanIllegal ==
    /\ pc = "scan" /\ i < length /\ char # "(" /\ char # ")" /\ ~isdigit(char)
    /\ ~isalpha(char) /\ char \notin DOMAIN operator
    /\ Throw("ValueError", "illegal character: " \o char)
    /\ UNCHANGED << expression, output, calls, expr, i, number_stack, operator_stack, result >>

\* line 117 false: enter the loop of line 159
ScanEnd ==
    /\ pc = "scan" /\ i >= length
    /\ pc' = "end"
    /\ UNCHANGED << expression, output, calls, expr, i, number_stack, operator_stack, exc, msg, result >>

\* EndMismatch that drops the '(' and goes on
EndMismatch_pop ==
    /\ pc = "end"
    /\ operator_stack # << >> /\ Top(operator_stack) = LParen
    /\ operator_stack' = Pop(operator_stack)
    /\ UNCHANGED << expression, output, calls, expr, i, number_stack, pc, exc, msg, result >>

\* lines 159-161
EndMismatch ==
    /\ pc = "end"
    /\ operator_stack # << >> /\ Top(operator_stack) = LParen
    /\ Throw("ValueError", "mismatched parentheses")
    /\ UNCHANGED << expression, output, calls, expr, i, number_stack, operator_stack, result >>

\* line 159, line 162
ApplyAtEnd ==
    /\ pc = "end"
    /\ operator_stack # << >> /\ Top(operator_stack) # LParen
    /\ Apply

\* Return without the test of line 164: the top value whatever is below it
Return_top ==
    /\ pc = "end"
    /\ operator_stack = << >>
    /\ IF number_stack = << >>
       THEN /\ Throw("IndexError", "pop from empty list")
            /\ UNCHANGED << number_stack, result >>
       ELSE /\ result' = Top(number_stack)
            /\ number_stack' = Pop(number_stack)
            /\ pc' = "returned"
            /\ UNCHANGED << exc, msg >>
    /\ UNCHANGED << expression, output, calls, expr, i, operator_stack >>

\* lines 163-166
Return ==
    /\ pc = "end"
    /\ operator_stack = << >>
    /\ IF number_stack = << >>
       THEN /\ Throw("IndexError", "pop from empty list")
            /\ UNCHANGED << number_stack, result >>
       ELSE /\ result' = Top(number_stack)
            /\ number_stack' = Pop(number_stack)
            /\ IF Pop(number_stack) # << >>
               THEN Throw("ValueError", "extra numbers")
               ELSE pc' = "returned" /\ UNCHANGED << exc, msg >>
    /\ UNCHANGED << expression, output, calls, expr, i, operator_stack >>

\* lines 179-183: the value is a finite number, so line 183 formats it
Format ==
    /\ pc = "returned"
    /\ LET r == format_result(result)
       IN  IF r.out = "ok"
           THEN output' = r.text /\ pc' = "done"
           ELSE pc' = "wide" /\ UNCHANGED output
    /\ UNCHANGED << expression, calls, expr, i, number_stack, operator_stack, exc, msg,
                    result >>

Next ==
    \/ Solve
    \/ ScanLParen
    \/ ScanRParen
    \/ ApplyInParen
    \/ CloseParen
    \/ ScanNumber
    \/ ScanName
    \/ ScanOperator
    \/ ApplyForOperator
    \/ PushOperator
    \/ ScanIllegal
    \/ ScanEnd
    \/ EndMismatch
    \/ ApplyAtEnd
    \/ Return
    \/ Format

Spec == Init /\ [][Next]_vars

\* ------------------------------------------------------------------------
\* Arithmetic inputs: the well-formed expressions over literals, parentheses
\* and + - * /, by length, and the reference evaluation of such a string
\* ------------------------------------------------------------------------
MaxArith == 7

ArithDigits == {"2", "3"}

ArithOps == {"+", "-", "*", "/"}

\* WellFormed[n]: the well-formed expressions of exactly n characters
WellFormed[n \in 0..MaxArith] ==
    LET Literal(m) == IF m < 1 THEN {} ELSE [1..m -> ArithDigits]
        Group(m)   == IF m < 3 THEN {}
                      ELSE { << "(" >> \o e \o << ")" >> : e \in WellFormed[m - 2] }
        Atom(m)    == Literal(m) \cup Group(m)
    IN  Atom(n) \cup
        UNION { { a \o << op >> \o b : a \in WellFormed[k], op \in ArithOps,
                                       b \in Atom(n - 1 - k) } : k \in 1..(n - 2) }

ArithInputs ==
    UNION { WellFormed[n] : n \in 1..MaxArith } \cup Strings(Alphabet, 2)

InitArith == InitWith(ArithInputs)

SpecArith == InitArith /\ [][Next]_vars

\* The reference evaluation: a recursive descent over
\*   sum := product (('+' | '-') product)*,  product := atom (('*' | '/') atom)*,
\*   atom := literal | '(' sum ')'
\* Each operator returns [out, val, msg, pos]: the outcome of the part read and the
\* position after it; out is "ok", "raise", "beyond" or "syntax".
Ref(o, v, m, k) == [out |-> o, val |-> v, msg |-> m, pos |-> k]

Syntax(k) == Ref("syntax", Zero, "none", k)

\* a op b in the reference evaluation: a is the left operand, b the right one
RefApply(op, a, b, k) ==
    LET r == CASE op = "+" -> Wrap(AddV(a, b))
               [] op = "-" -> Wrap(SubV(a, b))
               [] op = "*" -> Wrap(MulV(a, b))
               [] op = "/" -> BinaryOp("/", a, b)
    IN  Ref(r.out, r.val, r.msg, k)

RECURSIVE RefSum(_, _), RefSumRest(_, _), RefProduct(_, _), RefProductRest(_, _),
          RefAtom(_, _)

RefAtom(s, k) ==
    IF k >= Len(s) THEN Syntax(k)
    ELSE IF isdigit(At(s, k)) THEN
        LET stop == NumberEnd(s, k)
            r    == ParseFloat(SubSeq(s, k + 1, stop))
        IN  IF r.out = "raise" THEN Syntax(k) ELSE Ref(r.out, r.val, r.msg, stop)
    ELSE IF At(s, k) = "(" THEN
        LET inner == RefSum(s, k + 1)
        IN  IF inner.out = "syntax" THEN inner
            ELSE IF inner.pos >= Len(s) \/ At(s, inner.pos) # ")" THEN Syntax(inner.pos)
            ELSE [inner EXCEPT !.pos = inner.pos + 1]
    ELSE Syntax(k)

\* left is the product read so far; the operators of a product group left to right
RefProductRest(s, left) ==
    IF left.pos < Len(s) /\ At(s, left.pos) \in {"*", "/"}
    THEN LET right == RefAtom(s, left.pos + 1)
         IN  IF right.out = "syntax" THEN right
             ELSE IF left.out # "ok" THEN RefProductRest(s, [left EXCEPT !.pos = right.pos])
             ELSE IF right.out # "ok" THEN RefProductRest(s, right)
             ELSE RefProductRest(s, RefApply(At(s, left.pos), left.val, right.val, right.pos))
    ELSE left

RefProduct(s, k) ==
    LET first == RefAtom(s, k)
    IN  IF first.out = "syntax" THEN first ELSE RefProductRest(s, first)

RefSumRest(s, left) ==
    IF left.pos < Len(s) /\ At(s, left.pos) \in {"+", "-"}
    THEN LET right == RefProduct(s, left.pos + 1)
         IN  IF right.out = "syntax" THEN right
             ELSE IF left.out # "ok" THEN RefSumRest(s, [left EXCEPT !.pos = right.pos])
             ELSE IF right.out # "ok" THEN RefSumRest(s, right)
             ELSE RefSumRest(s, RefApply(At(s, left.pos), left.val, right.val, right.pos))
    ELSE left

RefSum(s, k) ==
    LET first == RefProduct(s, k)
    IN  IF first.out = "syntax" THEN first ELSE RefSumRest(s, first)

\* the reference outcome of a whole string
Reference(s) ==
    LET r == RefSum(s, 0)
    IN  IF r.out # "syntax" /\ r.pos # Len(s) THEN Syntax(r.pos) ELSE r

IsArithmetic(s) == \A k \in 1..Len(s) : s[k] \in Digits \cup {".", "(", ")"} \cup ArithOps

Finished == pc \in {"returned", "raised", "beyond"}

\* C1: for every well-formed expression of literals, parentheses and + - * /, the
\* value expression_parse returns is the value of the reference evaluation (* and /
\* before + and -, equal ranks left to right, the top of the value stack on the
\* right, a group first); where the reference evaluation divides by zero the call
\* raises divide by zero.
C1_ArithmeticPrecedence ==
    (Finished /\ IsArithmetic(expr) /\ Reference(expr).out # "syntax") =>
        LET ref == Reference(expr)
        IN  CASE ref.out = "ok"     -> pc = "returned" /\ result = ref.val
              [] ref.out = "raise"  -> pc = "raised" /\ exc = "ValueError" /\ msg = ref.msg
              [] ref.out = "beyond" -> pc = "beyond"

\* (2+3)*2 has returned 10
C1_Witness ==
    /\ pc = "returned"
    /\ expr = << "(", "2", "+", "3", ")", "*", "2" >>
    /\ result = FromInt(10)

\* ------------------------------------------------------------------------
\* Chains: strings of literals and the operators ^ - / %
\* ------------------------------------------------------------------------
MaxChain == 5

ChainAlphabet ==
    { << "2" >>, << "3" >>, << "^" >>, << "-" >>, << "/" >>, << "%" >> }

ChainInputs == Strings(ChainAlphabet, MaxChain) \cup Strings(Alphabet, 2)

InitChain == InitWith(ChainInputs)

SpecChain == InitChain /\ [][Next]_vars

\* the literal of s that starts at k (from 0): its value and its end
LiteralAt(s, k) ==
    IF k < Len(s) /\ isdigit(At(s, k))
    THEN LET r == ParseFloat(SubSeq(s, k + 1, NumberEnd(s, k)))
         IN  Ref(IF r.out = "raise" THEN "syntax" ELSE r.out, r.val, r.msg, NumberEnd(s, k))
    ELSE Syntax(k)

\* s is a op b op c for three literals and one operator op of ops
IsChain(s, ops) ==
    LET a == LiteralAt(s, 0)
        b == LiteralAt(s, a.pos + 1)
        c == LiteralAt(s, b.pos + 1)
    IN  /\ a.out = "ok" /\ a.pos < Len(s) /\ At(s, a.pos) \in ops
        /\ b.out = "ok" /\ b.pos < Len(s) /\ At(s, b.pos) = At(s, a.pos)
        /\ c.out = "ok" /\ c.pos = Len(s)

\* the outcome of the call is the outcome r of an evaluation
Outcome(r) ==
    CASE r.out = "ok"     -> pc = "returned" /\ result = r.val
      [] r.out = "raise"  -> pc = "raised" /\ exc = r.exc /\ msg = r.msg
      [] r.out = "beyond" -> pc = "beyond"

\* (a op b) op c
LeftGrouped(op, a, b, c) ==
    LET first == BinaryOp(op, a, b)
    IN  IF first.out # "ok" THEN first ELSE BinaryOp(op, first.val, c)

\* a op (b op c)
RightGrouped(op, a, b, c) ==
    LET first == BinaryOp(op, b, c)
    IN  IF first.out # "ok" THEN first ELSE BinaryOp(op, a, first.val)

\* C2: the power operator groups right to left and - / % group left to right:
\* a^b^c is evaluated as a^(b^c), and a-b-c, a/b/c, a%b%c as (a-b)-c, (a/b)/c,
\* (a%b)%c, for all literals a, b, c.
C2_Associativity ==
    (Finished /\ IsChain(expr, {"^", "-", "/", "%"})) =>
        LET a  == LiteralAt(expr, 0)
            b  == LiteralAt(expr, a.pos + 1)
            c  == LiteralAt(expr, b.pos + 1)
            op == At(expr, a.pos)
        IN  IF op = "^"
            THEN Outcome(RightGrouped(op, a.val, b.val, c.val))
            ELSE Outcome(LeftGrouped(op, a.val, b.val, c.val))

\* 2^3^2 has returned 512
C2_Witness ==
    /\ pc = "returned"
    /\ expr = << "2", "^", "3", "^", "2" >>
    /\ result = FromInt(512)

\* ------------------------------------------------------------------------
\* Errors and parentheses, over every string of at most MaxLen lexemes
\* ------------------------------------------------------------------------
\* C3: solve returns a result or fails with ValueError, the one class the host
\* binding catches; no other exception escapes.
C3_OnlyValueError == pc = "raised" => exc = "ValueError"

\* the nesting depth after each character never drops below 0 and ends at 0
RECURSIVE Depth(_, _)
Depth(s, d) ==
    IF d < 0 THEN -1
    ELSE IF s = << >> THEN d
    ELSE Depth(Tail(s), CASE Head(s) = "(" -> d + 1 [] Head(s) = ")" -> d - 1 [] OTHER -> d)

Balanced(s) == Depth(s, 0) = 0

Without(s, k) == SubSeq(s, 1, k - 1) \o SubSeq(s, k + 1, Len(s))

With(s, k, c) == SubSeq(s, 1, k) \o << c >> \o SubSeq(s, k + 1, Len(s))

\* s is a well-formed arithmetic expression but for one parenthesis too many or one
\* too few
OneParenOff(s) ==
    /\ IsArithmetic(s)
    /\ \/ \E k \in 1..Len(s) :
            s[k] \in {"(", ")"} /\ Reference(Without(s, k)).out # "syntax"
       \/ \E k \in 0..Len(s), c \in {"(", ")"} :
            Reference(With(s, k, c)).out # "syntax"

\* s is a well-formed arithmetic expression but for its last ')', missing or added
LastParenOff(s) ==
    /\ IsArithmetic(s)
    /\ \/ Reference(Append(s, ")")).out # "syntax"
       \/ s # << >> /\ Top(s) = ")" /\ Reference(Pop(s)).out # "syntax"

Mismatched == pc = "raised" /\ exc = "ValueError" /\ msg = "mismatched parentheses"

\* C4: a ')' met when the pending operations have been applied and the operator
\* stack is empty, and a '(' on top of the operator stack in the flush at the end
\* of the input, raise the mismatched-parentheses error; an expression returns a
\* value only if its parentheses are balanced, so never for a well-formed expression
\* with one parenthesis too few or too many; with the last ')' missing, as in (1+2,
\* or one ')' added at the end, as in 1+2), the error is the mismatched-parentheses
\* error (or the divide-by-zero error of an operation applied before).
C4_MismatchedParentheses ==
    /\ [](pc = "returned" => Balanced(expr))
    /\ []((Finished /\ OneParenOff(expr)) => pc # "returned")
    /\ []((Finished /\ LastParenOff(expr)) =>
            \/ Mismatched
            \/ pc = "raised" /\ exc = "ValueError" /\ msg = "divide by zero"
            \/ pc = "beyond")
    /\ [][(pc = "rparen" /\ operator_stack = << >>) => Mismatched']_vars
    /\ [][(pc = "end" /\ operator_stack # << >> /\ Top(operator_stack) = LParen)
            => Mismatched']_vars

\* (2+3 has raised the mismatched-parentheses error at the end of the input
C4_Witness ==
    /\ Mismatched
    /\ expr = << "(", "2", "+", "3" >>
    /\ i = 4
    /\ operator_stack = << LParen >>

LParens(os) == Count(os, LParen)

\* a '(' leaves the operator stack only in the step that closes a ')', which pops
\* the '(' on top
OnlyCloseRemoves ==
    LParens(operator_stack') < LParens(operator_stack) =>
        /\ pc = "rparen" /\ i < length /\ char = ")"
        /\ Top(operator_stack) = LParen
        /\ operator_stack' = Pop(operator_stack)

\* C10 as stated: a '(' leaves the operator stack only when a ')' is processed, which
\* removes exactly the most recent one; and a '(' still on the stack at the end of
\* the input yields the mismatched-parentheses error.
C10_AsStated ==
    [][ /\ OnlyCloseRemoves
        /\ (pc = "end" /\ LParens(operator_stack) > 0 /\ pc' \in {"returned", "raised"})
              => Mismatched' ]_vars

\* C10: a '(' leaves the operator stack only when a ')' is processed, which removes
\* exactly the most recent one; with a '(' still on the stack at the end of the
\* input the call never returns a value, and it raises the mismatched-parentheses
\* error when the flush reaches the '('.
C10_ParenthesisRemoval ==
    [][ /\ OnlyCloseRemoves
        /\ (pc = "end" /\ LParens(operator_stack) > 0) =>
              /\ pc' # "returned"
              /\ LParens(operator_stack') = LParens(operator_stack)
              /\ Top(operator_stack) = LParen => Mismatched' ]_vars

\* the ')' of (2+3) has removed the '(' below the applied +
C10_Witness ==
    /\ pc = "scan"
    /\ expr = << "(", "(", "2", ")" >>
    /\ i = 4
    /\ operator_stack = << LParen >>

\* ------------------------------------------------------------------------
\* Names: a literal followed by an identifier
\* ------------------------------------------------------------------------
MaxParts == 3

NameParts ==
    { MaxName, << "a" >>, << "b" >>, << "z" >>, << "k" >>, << "x" >>, << "M" >> }

Letters == Range(LowerCase) \cup Range(UpperCase)

NameInputs ==
    { d \o name : d \in { << "1" >>, << "3" >> }, name \in Strings(NameParts, MaxParts) }
    \cup { d \o MaxName \o << c >> : d \in { << "1" >>, << "3" >> }, c \in Letters }
    \cup Strings(Alphabet, 2)

InitName == InitWith(NameInputs)

SpecName == InitName /\ [][Next]_vars

IsName(token) == isalpha(token[1])

\* "max" followed by exactly one letter
IsMaxToken(token) ==
    /\ Len(token) = 4
    /\ SubSeq(token, 1, 3) = MaxName
    /\ token[4] \in Range(LowerCase)

\* C5: the scanner accepts an identifier only if it is a function name, a unit
\* name or "max" followed by exactly one letter; no other identifier is pushed on
\* the operator stack.
C5_AcceptedNames ==
    \A k \in 1..Len(operator_stack) :
        IsName(operator_stack[k]) =>
            \/ Str(operator_stack[k]) \in functions
            \/ Str(operator_stack[k]) \in DOMAIN unit
            \/ IsMaxToken(operator_stack[k])

\* one of the three loops is about to apply the token on top of the operator stack
Applying ==
    \/ pc = "rparen" /\ operator_stack # << >> /\ Top(operator_stack) # LParen
    \/ pc = "flush" /\ MustApply(char, operator_stack)
    \/ pc = "end" /\ operator_stack # << >> /\ Top(operator_stack) # LParen

\* v * 2^k
TimesTwoTo(v, k) == IF v.n = 0 THEN v ELSE [v EXCEPT !.e2 = @ + k]

\* C9: applying "max" + letter, the letter of index n from a = 0, replaces the popped
\* operand v by v * 2147483648 * 4^(n+1) = v * 2^(31 + 2(n+1)); 1maxa gives 8589934592.
C9_MaxFamily ==
    /\ []((pc = "returned" /\ expr = << "1", "m", "a", "x", "a" >>)
            => result = [n |-> 1, d |-> 1, e2 |-> 33, e5 |-> 0])
    /\ [][(Applying /\ IsMaxToken(Top(operator_stack)) /\ number_stack # << >>) =>
            /\ pc' = pc
            /\ operator_stack' = Pop(operator_stack)
            /\ number_stack' =
                 Append(Pop(number_stack),
                        TimesTwoTo(Top(number_stack),
                                   31 + 2 * (LetterIndex(Top(operator_stack)[4]) + 1)))
          ]_vars

\* 3maxz has returned 3 * 2^83
C9_Witness ==
    /\ pc = "returned"
    /\ expr = << "3", "m", "a", "x", "z" >>
    /\ result = [n |-> 3, d |-> 1, e2 |-> 83, e5 |-> 0]

\* ------------------------------------------------------------------------
\* Divisors: a literal, / or %, and a literal near zero
\* ------------------------------------------------------------------------
MaxDivide == 3

DivideAlphabet ==
    { << "1" >>, << "3" >>, << "/" >>, << "%" >>, << "0" >>,
      << "0", ".", "0", "0", "1" >>,
      << "0", ".", "0", "0", "0", "0", "0", "0", "0", "0", "0", "1" >>,
      << "0", ".", "0", "0", "0", "0", "0", "0", "0", "0", "0", "0", "1" >> }

DivideInputs == Strings(DivideAlphabet, MaxDivide) \cup Strings(Alphabet, 2)

InitDivide == InitWith(DivideInputs)

SpecDivide == InitDivide /\ [][Next]_vars

\* |b| * 10^10 compared with 1: "lt", "eq" or "gt".  A numerator past the integer
\* range makes it "gt", a denominator past it "lt".
AgainstThreshold(b) ==
    LET v  == MulV(AbsV(b), Ten(10))
        up == ScaleUp(ScaleUp(v.n, 2, Max(v.e2, 0)), 5, Max(v.e5, 0))
        dn == ScaleUp(ScaleUp(v.d, 2, Max(-v.e2, 0)), 5, Max(-v.e5, 0))
    IN  IF dn < 0 THEN "lt"
        ELSE IF up < 0 THEN "gt"
        ELSE IF up < dn THEN "lt"
        ELSE IF up = dn THEN "eq"
        ELSE "gt"

\* |b| < 1e-10
Below(b) == AgainstThreshold(b) = "lt"

\* |b| <= 1e-10
Within(b) == AgainstThreshold(b) \in {"lt", "eq"}

DividingBy(op) ==
    /\ Applying
    /\ Top(operator_stack) = << op >>
    /\ Len(number_stack) >= 2

Dividend == number_stack[Len(number_stack) - 1]

Divisor == Top(number_stack)

Rest == SubSeq(number_stack, 1, Len(number_stack) - 2)

Fails(m) ==
    /\ pc' = "raised" /\ exc' = "ValueError" /\ msg' = m
    /\ number_stack' = Rest

Pushes(v) ==
    /\ pc' = pc /\ exc' = "none"
    /\ number_stack' = Append(Rest, v)

\* C8 as stated: / and % by a divisor within 1e-10 of zero, the divisor 0.0000000001
\* included, raise divide by zero and modulo by zero and push nothing; a divisor
\* of 0.001 gives a / b and a % b.
C8_AsStated ==
    [][ /\ (DividingBy("/") /\ Within(Divisor)) => Fails("divide by zero")
        /\ (DividingBy("%") /\ Within(Divisor)) => Fails("modulo by zero")
        /\ (DividingBy("/") /\ Divisor = Ten(-3) /\ pc' # "beyond")
              => Pushes(DivV(Dividend, Divisor))
        /\ (DividingBy("%") /\ Divisor = Ten(-3) /\ pc' # "beyond")
              => Pushes(Modulo(Dividend, Divisor))
      ]_vars

\* C8: / and % by a divisor of magnitude below 1e-10 raise divide by zero and
\* modulo by zero and push nothing; a divisor of magnitude 1e-10 or more, the
\* 0.0000000001 of 1/0.0000000001 and 0.001 included, gives a / b and a % b, and
\* 1/0.0000000001 returns 10000000000.
C8_NearZeroDivisor ==
    /\ []((Finished /\ expr = << "1", "/" >> \o
                               << "0", ".", "0", "0", "0", "0", "0", "0", "0", "0", "0", "1" >>)
            => (pc = "returned" /\ result = Ten(10)))
    /\ [][ /\ (DividingBy("/") /\ Below(Divisor)) => Fails("divide by zero")
           /\ (DividingBy("%") /\ Below(Divisor)) => Fails("modulo by zero")
           /\ (DividingBy("/") /\ ~Below(Divisor) /\ pc' # "beyond")
                 => Pushes(DivV(Dividend, Divisor))
           /\ (DividingBy("%") /\ ~Below(Divisor) /\ pc' # "beyond")
                 => Pushes(Modulo(Dividend, Divisor))
         ]_vars

\* 1/0.0000000001 has returned 10000000000
C8_Witness ==
    /\ pc = "returned"
    /\ expr = << "1", "/" >> \o << "0", ".", "0", "0", "0", "0", "0", "0", "0", "0", "0", "1" >>
    /\ result = Ten(10)

\* ------------------------------------------------------------------------
\* Operands: functions and units around a literal or a parenthesised group
\* ------------------------------------------------------------------------
MaxGroup == 3

Groups == { << "(" >> \o e \o << ")" >> : e \in UNION { WellFormed[n] : n \in 1..MaxGroup } }

Operands == { << d >> : d \in ArithDigits } \cup Groups

FunctionNames == { << "a", "b", "s" >>, << "f", "l", "o", "o", "r" >>, << "s", "q", "r", "t" >> }

UnitNames == { << "k" >>, << "m" >> }

Applications == { f \o x : f \in FunctionNames, x \in Operands }

\* f x op y and y op f x
FunctionInputs ==
    { fx \o << op >> \o << y >> : fx \in Applications, op \in DOMAIN operator, y \in ArithDigits }
    \cup { << y >> \o << op >> \o fx : fx \in Applications, op \in DOMAIN operator, y \in ArithDigits }

\* X u and y op X u, for X a literal, a group or a function applied to a group
UnitInputs ==
    LET suffixed == { x \o u : x \in Operands \cup { f \o g : f \in FunctionNames, g \in Groups },
                               u \in UnitNames }
    IN  suffixed \cup
        { << y >> \o << op >> \o xu : y \in ArithDigits, op \in DOMAIN operator, xu \in suffixed }

OperandInputs == FunctionInputs \cup UnitInputs \cup Strings(Alphabet, 2)

InitOperand == InitWith(OperandInputs)

SpecOperand == InitOperand /\ [][Next]_vars

\* an outcome of the reference evaluation as an outcome of a call
AsOutcome(r) ==
    [out |-> r.out, val |-> r.val, msg |-> r.msg,
     exc |-> IF r.out = "raise" THEN "ValueError" ELSE "none"]

\* g applied to the value of the outcome r, an outcome that is not "ok" going through
Then(r, g(_)) == IF r.out = "ok" THEN g(r.val) ELSE r

\* the identifier of the run of letters of s from k on
NameAt(s, k) == FoldLower(SubSeq(s, k + 1, NameEnd(s, k)))

\* the operand of s at k: a literal or a group, or, when applied is TRUE, a function
\* name and the literal or group after it; the outcome of its value and its end
OperandAt(s, k, applied) ==
    IF applied /\ k < Len(s) /\ isalpha(At(s, k)) /\ Str(NameAt(s, k)) \in functions
    THEN LET x == RefAtom(s, NameEnd(s, k))
             f(v) == ApplyFunction(Str(NameAt(s, k)), v)
         IN  [r |-> IF x.out = "syntax" THEN x ELSE Then(AsOutcome(x), f), pos |-> x.pos,
              syntax |-> x.out = "syntax"]
    ELSE LET x == RefAtom(s, k)
         IN  [r |-> AsOutcome(x), pos |-> x.pos, syntax |-> x.out = "syntax"]

\* s from k on is a function name and a literal or group
IsApplication(s, k) ==
    /\ k < Len(s) /\ isalpha(At(s, k)) /\ Str(NameAt(s, k)) \in functions
    /\ ~OperandAt(s, k, TRUE).syntax

\* s is f x op y
IsApplicationFirst(s) ==
    /\ IsApplication(s, 0)
    /\ LET fx == OperandAt(s, 0, TRUE)
       IN  /\ fx.pos < Len(s) /\ At(s, fx.pos) \in DOMAIN operator
           /\ LiteralAt(s, fx.pos + 1).out = "ok"
           /\ LiteralAt(s, fx.pos + 1).pos = Len(s)

\* s is y op f x
IsApplicationLast(s) ==
    LET y == LiteralAt(s, 0)
    IN  /\ y.out = "ok" /\ y.pos < Len(s) /\ At(s, y.pos) \in DOMAIN operator
        /\ IsApplication(s, y.pos + 1)
        /\ OperandAt(s, y.pos + 1, TRUE).pos = Len(s)

\* the top of the operator stack is a function name
FunctionOnTop == operator_stack # << >> /\ Str(Top(operator_stack)) \in functions

\* C7: a function binds to one operand, tighter than every binary operator:
\* f x op y is evaluated as (f(x)) op y and y op f x as y op (f(x)), for x a literal
\* or a group and op any of + - * / % ^; applying a function replaces the top of the
\* value stack by its image and leaves the values below.
C7_FunctionBinding ==
    /\ []((Finished /\ IsApplicationFirst(expr)) =>
            LET fx == OperandAt(expr, 0, TRUE)
                y  == LiteralAt(expr, fx.pos + 1)
                g(v) == BinaryOp(At(expr, fx.pos), v, y.val)
            IN  Outcome(Then(fx.r, g)))
    /\ []((Finished /\ IsApplicationLast(expr)) =>
            LET y  == LiteralAt(expr, 0)
                fx == OperandAt(expr, y.pos + 1, TRUE)
                g(v) == BinaryOp(At(expr, y.pos), y.val, v)
            IN  Outcome(Then(fx.r, g)))
    /\ [][(Applying /\ FunctionOnTop /\ number_stack # << >> /\ pc' = pc) =>
            /\ operator_stack' = Pop(operator_stack)
            /\ number_stack' =
                 Append(Pop(number_stack),
                        ApplyFunction(Str(Top(operator_stack)), Top(number_stack)).val)
          ]_vars

\* floor(3/2)^2 has returned 1
C7_Witness ==
    /\ pc = "returned"
    /\ expr = << "f", "l", "o", "o", "r", "(", "3", "/", "2", ")", "^", "2" >>
    /\ result = One

\* the unit that ends s, from k on
IsUnitAt(s, k) ==
    /\ k < Len(s)
    /\ NameEnd(s, k) = Len(s)
    /\ Str(NameAt(s, k)) \in DOMAIN unit

\* s from k on is X u
IsSuffixed(s, k) ==
    /\ ~OperandAt(s, k, TRUE).syntax
    /\ IsUnitAt(s, OperandAt(s, k, TRUE).pos)

\* the value of X u in s from k on: the value of X times the factor of u
Suffixed(s, k) ==
    LET x == OperandAt(s, k, TRUE)
        g(v) == Wrap(MulV(v, unit[Str(NameAt(s, x.pos))]))
    IN  Then(x.r, g)

\* the outcome r, unless r or the call left the numbers of the model
OutcomeInDomain(r) == r.out = "beyond" \/ pc = "beyond" \/ Outcome(r)

\* C6: a unit multiplies the whole operand directly before it, a literal, a group or
\* a function application f(x), before any binary operator is applied to it: X u
\* gives the value of X times the factor of u, and y op X u gives y op that.
C6_UnitSuffix ==
    /\ (Finished /\ IsSuffixed(expr, 0)) => OutcomeInDomain(Suffixed(expr, 0))
    /\ (Finished /\ LiteralAt(expr, 0).out = "ok" /\ LiteralAt(expr, 0).pos < Len(expr)
          /\ At(expr, LiteralAt(expr, 0).pos) \in DOMAIN operator
          /\ IsSuffixed(expr, LiteralAt(expr, 0).pos + 1)) =>
            LET y == LiteralAt(expr, 0)
                g(v) == BinaryOp(At(expr, y.pos), y.val, v)
            IN  OutcomeInDomain(Then(Suffixed(expr, y.pos + 1), g))

\* ------------------------------------------------------------------------
\* The end of expression_parse
\* ------------------------------------------------------------------------
\* the loop of line 159 is over
AtReturn == pc = "end" /\ operator_stack = << >>

\* C11: expression_parse returns a value only if, the whole input consumed and the
\* operator stack emptied, exactly one value is on the value stack, and that value is
\* the one returned; with more than one value left it raises the extra-numbers error
\* and returns nothing.
C11_SingleValue ==
    /\ [][(pc # "returned" /\ pc' = "returned") =>
            /\ AtReturn
            /\ i = length
            /\ Len(number_stack) = 1
            /\ result' = number_stack[1]]_vars
    /\ [][(AtReturn /\ Len(number_stack) > 1) =>
            /\ pc' = "raised"
            /\ exc' = "ValueError"
            /\ msg' = "extra numbers"]_vars

\* 2(3) has left 2 and 3 on the value stack and failed with the extra-numbers error
C11_Witness ==
    /\ pc = "raised"
    /\ msg = "extra numbers"
    /\ expr = << "2", "(", "3", ")" >>
    /\ number_stack = << FromInt(2) >>
    /\ operator_stack = << >>

\* ------------------------------------------------------------------------
\* The ranks of the tokens
\* ------------------------------------------------------------------------
\* the rank the specification states for a token
StatedRank(token) ==
    IF Str(token) \in {"+", "-"} THEN 1
    ELSE IF Str(token) \in {"*", "/", "%"} THEN 2
    ELSE IF Str(token) = "^" THEN 3
    ELSE IF token = LParen THEN 0
    ELSE IF Str(token) \in functions \/ Str(token) \in DOMAIN unit \/ IsMaxToken(token)
         THEN 4
    ELSE 5

\* C12: get_priority returns 1 for + and -, 2 for * / and %, 3 for ^, 0 for '(', 4 for
\* every function name and every unit name (the MAX-family tokens included) and 5 only
\* for other tokens: stated of the two calls of line 148, on the incoming operator and
\* on the top of the operator stack.
C12_Ranks ==
    (pc = "flush" /\ operator_stack # << >>) =>
        /\ get_priority(<< char >>) = StatedRank(<< char >>)
        /\ get_priority(Top(operator_stack)) = StatedRank(Top(operator_stack))

\* ------------------------------------------------------------------------
\* Binary operators: strings of literals and the six operators
\* ------------------------------------------------------------------------
MaxBinary == 3

BinaryAlphabet ==
    { << "0" >>, << "2" >>, << "3" >>,
      << "+" >>, << "-" >>, << "*" >>, << "/" >>, << "%" >>, << "^" >> }

BinaryInputs == Strings(BinaryAlphabet, MaxBinary) \cup Strings(Alphabet, 2)

InitBinary == InitWith(BinaryInputs)

SpecBinary == InitBinary /\ [][Next]_vars

\* one of the three loops is about to apply the binary operator op
ApplyingBinary(op) == Applying /\ Top(operator_stack) = << op >>

\* a op b
Applied(op, a, b) ==
    CASE op = "+" -> AddV(a, b)
      [] op = "-" -> SubV(a, b)
      [] op = "*" -> MulV(a, b)
      [] op = "/" -> DivV(a, b)
      [] op = "%" -> Modulo(a, b)
      [] op = "^" -> Power(a, b).val

\* C13: when calculate pops a binary operator op with fewer than two values on the
\* value stack it raises the error that names op as missing sufficient operands and
\* pushes nothing; with two or more values, unless the operation itself fails, it
\* replaces the two top values b (the top) and a by a op b.
C13_BinaryOperands ==
    [][\A op \in DOMAIN operator :
          /\ (ApplyingBinary(op) /\ Len(number_stack) < 2) =>
                /\ pc' = "raised"
                /\ exc' = "ValueError"
                /\ msg' = "operator " \o op \o " missing sufficient operands"
                /\ number_stack' = << >>
                /\ operator_stack' = Pop(operator_stack)
          /\ (ApplyingBinary(op) /\ Len(number_stack) >= 2 /\ pc' = pc) =>
                /\ number_stack' = Append(Rest, Applied(op, Dividend, Divisor))
                /\ operator_stack' = Pop(operator_stack)
      ]_vars

\* 2-3 has applied the - to a = 2 and b = 3 and returned -1
C13_Witness ==
    /\ pc = "returned"
    /\ expr = << "2", "-", "3" >>
    /\ result = FromInt(-1)

\* ------------------------------------------------------------------------
\* Tokens: strings of a literal, parentheses, operators and names
\* ------------------------------------------------------------------------
MaxTokens == 4

TokenAlphabet ==
    { << "2" >>, << "(" >>, << ")" >>, << "+" >>, << "*" >>, << "^" >>,
      << "k" >>, << "a", "b", "s" >>, << "m", "a", "x", "a" >> }

TokenInputs == Strings(TokenAlphabet, MaxTokens) \cup Strings(Alphabet, 2)

InitToken == InitWith(TokenInputs)

SpecToken == InitToken /\ [][Next]_vars

\* the values of a stack below its top count values
Under(stack, count) == SubSeq(stack, 1, Len(stack) - count)

\* C17: a calculate call that does not fail removes the top token of the operator
\* stack and changes no other token; for a function, a unit or a MAX-family token the
\* value stack keeps its size and only its top value is replaced; for a binary
\* operator the value stack shrinks by one, its two top values replaced by one.
C17_ApplyFrame ==
    [][(Applying /\ pc' = pc) =>
          /\ operator_stack' = SubSeq(operator_stack, 1, Len(operator_stack) - 1)
          /\ IF Str(Top(operator_stack)) \in DOMAIN operator
             THEN /\ Len(number_stack) >= 2
                  /\ Len(number_stack') = Len(number_stack) - 1
                  /\ Under(number_stack', 1) = Under(number_stack, 2)
             ELSE /\ Len(number_stack) >= 1
                  /\ Len(number_stack') = Len(number_stack)
                  /\ Under(number_stack', 1) = Under(number_stack, 1)
      ]_vars

\* in 2+abs2 the end flush has applied abs: the + and the 2 below are as they were
C17_Witness ==
    /\ pc = "end"
    /\ expr = << "2", "+", "a", "b", "s", "2" >>
    /\ operator_stack = << << "+" >> >>
    /\ number_stack = << FromInt(2), FromInt(2) >>

IsBinaryToken(token) == Str(token) \in DOMAIN operator

\* C18: in every reachable state the token directly below a binary operator on the
\* operator stack, if there is one, is a '(', a binary operator of strictly lower rank,
\* or a '^' below a '^'; a function, a unit or a MAX-family token is never directly
\* below a binary operator.
C18_StackOrder ==
    \A k \in 2..Len(operator_stack) :
        IsBinaryToken(operator_stack[k]) =>
            LET above == operator_stack[k]
                below == operator_stack[k - 1]
            IN  \/ below = LParen
                \/ /\ IsBinaryToken(below)
                   /\ operator[Str(below)] < operator[Str(above)]
                \/ /\ below = << "^" >>
                   /\ above = << "^" >>

\* 2^2^ has pushed a ^ on a ^
C18_Witness ==
    /\ pc = "scan"
    /\ i = length
    /\ expr = << "2", "^", "2", "^" >>
    /\ operator_stack = << << "^" >>, << "^" >> >>

\* ------------------------------------------------------------------------
\* Infix form: operand (operator operand)*, an operand being a literal or a
\* parenthesised expression, after any functions and before any units
\* ------------------------------------------------------------------------
RECURSIVE InfixExpr(_, _), InfixRest(_, _), InfixOperand(_, _), InfixUnits(_, _)

\* where the unit names that follow an operand end, from k; -1 for another name
InfixUnits(s, k) ==
    IF k < Len(s) /\ isalpha(At(s, k))
    THEN LET stop == NameEnd(s, k)
             name == FoldLower(SubSeq(s, k + 1, stop))
         IN  IF Str(name) \in DOMAIN unit \/ IsMaxToken(name)
             THEN InfixUnits(s, stop)
             ELSE -1
    ELSE k

\* where the operand that starts at k ends, -1 if none starts there
InfixOperand(s, k) ==
    IF k < 0 \/ k >= Len(s) THEN -1
    ELSE IF isdigit(At(s, k)) THEN
        IF Count(SubSeq(s, k + 1, NumberEnd(s, k)), ".") > 1 THEN -1
        ELSE InfixUnits(s, NumberEnd(s, k))
    ELSE IF At(s, k) = "(" THEN
        LET close == InfixExpr(s, k + 1)
        IN  IF close >= 0 /\ close < Len(s) /\ At(s, close) = ")"
            THEN InfixUnits(s, close + 1)
            ELSE -1
    ELSE IF isalpha(At(s, k)) THEN
        LET stop == NameEnd(s, k)
            name == FoldLower(SubSeq(s, k + 1, stop))
        IN  IF Str(name) \in functions THEN InfixOperand(s, stop) ELSE -1
    ELSE -1

\* after an operand that ends at k: the operators and operands that follow
InfixRest(s, k) ==
    IF k < 0 THEN -1
    ELSE IF k < Len(s) /\ At(s, k) \in DOMAIN operator
         THEN InfixRest(s, InfixOperand(s, k + 1))
    ELSE k

InfixExpr(s, k) == InfixRest(s, InfixOperand(s, k))

WellFormedInfix(s) == InfixExpr(s, 0) = Len(s)

\* C19: expression_parse returns a value only for well-formed infix input: every binary
\* operator between two operands of its own parenthesis group, every function before
\* its operand, every unit after its operand; any other token sequence fails.
C19_OnlyInfix == pc = "returned" => WellFormedInfix(expr)

\* ------------------------------------------------------------------------
\* Termination: a call keeps taking its next step
\* ------------------------------------------------------------------------
MaxScan == 3

ScanAlphabet == { << "(" >>, << ")" >>, << "2" >>, << "+" >>, << "^" >>, << "k" >> }

ScanInputs == Strings(ScanAlphabet, MaxScan) \cup Strings(Alphabet, 2)

InitScan == InitWith(ScanInputs)

SpecScan == InitScan /\ [][Next]_vars /\ WF_vars(Next)

\* the call is over
Halted == pc \in {"done", "raised", "beyond", "wide"}

\* the steps the call has left at most: 4 for each character not yet scanned, 1 for
\* each pending token, and the steps of the phase it is in
Measure ==
    IF pc = "solve" THEN 4 * Len(RemoveSpaces(expression)) + 4
    ELSE 4 * (length - i) + Len(operator_stack)
         + (CASE pc = "scan" -> 3
              [] pc \in {"rparen", "flush", "end"} -> 2
              [] pc = "returned" -> 1
              [] OTHER -> 0)

\* C16: expression_parse terminates on every input, with a value or an error, after a
\* number of steps bounded by the input length: every iteration of the scanning loop
\* advances the cursor, every apply step of a flush shrinks the operator stack by one
\* token, and no flush applies a '('.
C16_Termination ==
    /\ <>Halted
    /\ [][Measure' < Measure]_vars
    /\ [][(pc \in {"scan", "rparen", "flush"} /\ pc' = "scan") => i' > i]_vars
    /\ [][Applying => Len(operator_stack') = Len(operator_stack) - 1]_vars
    /\ [](Applying => Top(operator_stack) # LParen)

\* (2+ has scanned its three characters, applied the + in the end flush, which failed
\* and left the '(' alone on the operator stack
C16_Witness ==
    /\ pc = "raised"
    /\ expr = << "(", "2", "+" >>
    /\ i = 3
    /\ operator_stack = << LParen >>
    /\ Measure = 1

\* ------------------------------------------------------------------------
\* Calls: solve called again and again on one Calculator
\* ------------------------------------------------------------------------
MaxCalls == 2

\* "", 2k, 2K, (2+3)*2, 2*3+1, (2+3, 2), 2#, 2(3), abs(0-3), ABS(0-3), 1/3, foo, Foo, 2+
CallInputs ==
    { << >>,
      << "2", "k" >>,
      << "2", "K" >>,
      << "(", "2", "+", "3", ")", "*", "2" >>,
      << "2", "*", "3", "+", "1" >>,
      << "(", "2", "+", "3" >>,
      << "2", ")" >>,
      << "2", "#" >>,
      << "2", "(", "3", ")" >>,
      << "a", "b", "s", "(", "0", "-", "3", ")" >>,
      << "A", "B", "S", "(", "0", "-", "3", ")" >>,
      << "1", "/", "3" >>,
      << "f", "o", "o" >>,
      << "F", "o", "o" >>,
      << "2", "+" >> }

InitCalls == InitWith(CallInputs)

\* solve has returned or raised
Ended == pc \in {"done", "raised"}

\* the call that has ended, with its outcome
ThisCall ==
    [expression |-> expression, pc |-> pc, output |-> output, exc |-> exc, msg |-> msg]

\* line 177: the caller calls solve once more on the same Calculator; the locals
\* of the call before are as that call left them
Again ==
    /\ Ended
    /\ Cardinality(calls) < MaxCalls
    /\ calls' = calls \cup { ThisCall }
    /\ expression' \in CallInputs
    /\ pc' = "solve"
    /\ exc' = "none"
    /\ msg' = "none"
    /\ output' = "none"
    /\ UNCHANGED << expr, i, number_stack, operator_stack, result >>

NextCalls ==
    \/ Next
    \/ Again

SpecCalls == InitCalls /\ [][NextCalls]_vars

\* the calls that have ended so far
Outcomes == calls \cup (IF Ended THEN { ThisCall } ELSE { })

\* C14: solve carries no state between calls: two calls of one Calculator with the same
\* expression have the same outcome, the same string returned or the same error raised,
\* whatever calls ran between them.
C14_NoStateBetweenCalls ==
    \A p, q \in Outcomes : p.expression = q.expression => p = q

\* 2k has returned 2000 a second time, after a call of 2(3) that failed and left a
\* value on its value stack
C14_Witness ==
    /\ pc = "done"
    /\ expression = << "2", "k" >>
    /\ output = "2000"
    /\ \E p \in calls : p.expression = << "2", "k" >> /\ p.output = "2000"
    /\ \E p \in calls : p.expression = << "2", "(", "3", ")" >> /\ p.msg = "extra numbers"

\* s and t differ in the case of letters only
SameButCase(s, t) ==
    /\ Len(s) = Len(t)
    /\ \A k \in 1..Len(s) : lower(s[k]) = lower(t[k])

\* C15: evaluation is case-insensitive: two expressions that differ only in the case of
\* their letters have the same outcome, the same string returned or the same error
\* raised with the same message.
C15_CaseInsensitive ==
    \A p, q \in Outcomes :
        SameButCase(p.expression, q.expression) =>
            /\ p.pc = q.pc
            /\ p.output = q.output
            /\ p.exc = q.exc
            /\ p.msg = q.msg

\* ABS(0-3) has returned 3 after abs(0-3) did
C15_Witness ==
    /\ pc = "done"
    /\ expression = << "A", "B", "S", "(", "0", "-", "3", ")" >>
    /\ output = "3"
    /\ \E p \in calls :
          /\ p.expression = << "a", "b", "s", "(", "0", "-", "3", ")" >>
          /\ p.output = "3"

====
